---- MODULE Spec2Model ----
(***************************************************************************)
(* csvlinter: the validation engine (validator.Validate), the streaming    *)
(* CSV reader (parser.Parser, in its file-backed and its buffer-backed     *)
(* implementation), the schema row validator (schema.Validator), the      *)
(* schema resolver (schema.ResolveSchema), the validate command            *)
(* (cmd.validateAction) and the JSON report (reporter.formatJSON).         *)
(*                                                                         *)
(* Text is modelled as a sequence of tokens.  A token is one character of  *)
(* the input: an ASCII digit "1", an ASCII letter, the delimiters "," and  *)
(* ";", the line feed "NL", the double quote "Q", a two-byte UTF-8         *)
(* character "E2", a byte that is not valid UTF-8 "BAD", and "PAD", a run  *)
(* of PadLen ASCII digits (so that inputs longer than one read chunk stay  *)
(* short sequences).                                                       *)
(***************************************************************************)
EXTENDS Integers, Sequences, FiniteSets, TLC

VARIABLES
    \* ---- validation engine and reader ----
    input,       \* the bytes of the CSV input (token sequence)
    delimiter,   \* Validator.delimiter (one token)
    impl,        \* which Parser the engine is built with: "file" | "buffer"
    failFast,    \* Validator.failFast
    schemaV,     \* Validator.schemaValidator: NoSchema or a compiled schema
    pc,          \* position of Validate: start, utf8, headers, rows, finish, done
    comma,       \* Parser.reader.Comma
    pos,         \* read position of Parser.reader in input (1-based)
    lineNumber,  \* Parser.lineNumber
    headers,     \* headers returned by ReadHeaders
    errors,      \* the local errors of Validate
    totalRows,   \* the local totalRows of Validate
    reads,       \* number of ReadRow calls made so far
    openOk,      \* whether the input can be opened and read at all
    ret,         \* what Validate returned: [kind |-> "none" | "results" | "error", ...]
    \* ---- one call of a row-level function: schema.Validator.ValidateRow,
    \* ---- Validator.convertValidationErrors or parser.Row.IsEmpty ----
    rvSchema,    \* the compiled schema of the validator
    rvHeaders,   \* the headers argument
    rvData,      \* the data argument (the Data of the row for IsEmpty)
    rvIssues,    \* the issues returned
    rvRowData,   \* the local rowData of ValidateRow, NoRowData while not built
    rvTree,      \* the error schema.Validate returned, NoTree when none
    rvEmpty,     \* what Row.IsEmpty returned
    rvPc,        \* "idle" | "call" | "done"
    \* ---- one call of schema.ResolveSchema ----
    files,       \* the regular files of the file system (absolute paths)
    dirs,        \* the directories of the file system (absolute paths)
    cwd,         \* the working directory (absolute path)
    csvPath,     \* the csvPath argument
    rdir,        \* the local dir of the upward walk
    rpc,         \* "idle" | "local" | "walk" | "done"
    stopped,     \* why the walk ended: "" | "root" | "found" | "top"
    resolved,    \* the path returned; NotFound for the empty string
    \* ---- one run of the validate command (cmd.validateAction) ----
    argv,        \* the command line and what it refers to
    source,      \* the bytes of the file argument, or the bytes piped to STDIN
    schemaPath,  \* the local schemaPath: NoPath for the empty string
    cliPc,       \* "idle" | "start" | "resolve" | "schema" | "validate" | "exit"
    exitCode,    \* exit status of the process, NoExit while it runs
    output,      \* what Report wrote: RetNone, or the Results written
    \* ---- one JSON report and its decoding ----
    jrIn,        \* the Results given to formatJSON
    jrDoc,       \* the JSON document formatJSON returned
    jrOut,       \* the Results json.Unmarshal decoded from it
    jrPc         \* "idle" | "encode" | "decode" | "done"

engineVars == <<input, delimiter, impl, failFast, schemaV, pc, comma, pos,
                lineNumber, headers, errors, totalRows, reads, openOk, ret>>

rowVars == <<rvSchema, rvHeaders, rvData, rvIssues, rvRowData, rvTree, rvEmpty, rvPc>>

resolveVars == <<files, dirs, cwd, csvPath, rdir, rpc, stopped, resolved>>

cliVars == <<argv, source, schemaPath, cliPc, exitCode, output>>

jsonVars == <<jrIn, jrDoc, jrOut, jrPc>>

vars == <<engineVars, rowVars, resolveVars, cliVars, jsonVars>>

(***************************************************************************)
(* Bounds of the model.                                                    *)
(***************************************************************************)
MaxLen == 7        \* longest input made of digits, commas and line feeds
MaxQuoteLen == 5   \* longest quoted part of an input with quotes
MaxEncLen == 1     \* longest tail of non-ASCII tokens
MaxDelimLen == 3   \* longest input of the runs with the ";" delimiter
MaxCols == 2       \* most columns of a row given to ValidateRow
MaxDepth == 2      \* deepest directory of a CSV file below the file system root

(***************************************************************************)
(* Program constants.                                                      *)
(***************************************************************************)
ChunkSize == 4096  \* buffer := make([]byte, 4096)
PadLen == ChunkSize - 1

(***************************************************************************)
(* Text helpers.                                                           *)
(***************************************************************************)
Min(a, b) == IF a <= b THEN a ELSE b

SeqsUpTo(S, n) == UNION {[1..k -> S] : k \in 0..n}

\* The first index i >= p with s[i] \in S, or Len(s)+1 when there is none.
IndexFrom(s, p, S) ==
    IF \E i \in p..Len(s) : s[i] \in S
    THEN CHOOSE i \in p..Len(s) : s[i] \in S /\ \A j \in p..(i-1) : s[j] \notin S
    ELSE Len(s) + 1

\* Bytes one token takes in the input.
TokLen(t) == IF t = "PAD" THEN PadLen ELSE IF t = "E2" THEN 2 ELSE 1

RECURSIVE ByteLen(_)
ByteLen(s) == IF s = <<>> THEN 0 ELSE TokLen(Head(s)) + ByteLen(Tail(s))

\* Byte offset (0-based) at which token i of s starts.
Offset(s, i) == ByteLen(SubSeq(s, 1, i - 1))

Str_row == <<"r", "o", "w">>
Str_empty == <<>>

(***************************************************************************)
(* encoding/csv Reader.Read with FieldsPerRecord = -1, LazyQuotes = false, *)
(* as the parser configures it: blank lines are skipped, a field that      *)
(* starts with a quote runs to its closing quote (across lines), a quote   *)
(* inside an unquoted field or a quoted field left open is a parse error.  *)
(* The result is [kind |-> "eof" | "rec" | "err", fields, next].           *)
(***************************************************************************)
CsvResult(k, f, n) == [kind |-> k, fields |-> f, next |-> n]

RECURSIVE ParseField(_, _, _, _)
RECURSIVE ParseQuoted(_, _, _, _, _)

ParseField(s, p, cm, fields) ==
    IF p <= Len(s) /\ s[p] = "Q"
    THEN ParseQuoted(s, p + 1, cm, fields, <<>>)
    ELSE LET j     == IndexFrom(s, p, {cm, "NL"})
             field == SubSeq(s, p, j - 1)
             eol   == IndexFrom(s, p, {"NL"})
         IN  IF \E i \in 1..Len(field) : field[i] = "Q"
             THEN CsvResult("err", <<>>, Min(eol + 1, Len(s) + 1))
             ELSE IF j <= Len(s) /\ s[j] = cm
             THEN ParseField(s, j + 1, cm, Append(fields, field))
             ELSE CsvResult("rec", Append(fields, field), Min(j + 1, Len(s) + 1))

ParseQuoted(s, p, cm, fields, acc) ==
    LET i == IndexFrom(s, p, {"Q"})
    IN  IF i > Len(s)
        THEN CsvResult("err", <<>>, Len(s) + 1)
        ELSE LET acc2 == acc \o SubSeq(s, p, i - 1)
             IN  IF i + 1 > Len(s)
                 THEN CsvResult("rec", Append(fields, acc2), Len(s) + 1)
                 ELSE IF s[i + 1] = "Q"
                 THEN ParseQuoted(s, i + 2, cm, fields, Append(acc2, "Q"))
                 ELSE IF s[i + 1] = cm
                 THEN ParseField(s, i + 2, cm, Append(fields, acc2))
                 ELSE IF s[i + 1] = "NL"
                 THEN CsvResult("rec", Append(fields, acc2), i + 2)
                 ELSE CsvResult("err", <<>>,
                                Min(IndexFrom(s, i + 1, {"NL"}) + 1, Len(s) + 1))

\* The first index i >= p that does not hold a line feed, or Len(s)+1.
SkipBlankLines(s, p) ==
    IF \E i \in p..Len(s) : s[i] # "NL"
    THEN CHOOSE i \in p..Len(s) : s[i] # "NL" /\ \A j \in p..(i-1) : s[j] = "NL"
    ELSE Len(s) + 1

ReadRecord(s, p, cm) ==
    LET q == SkipBlankLines(s, p)
    IN  IF q > Len(s)
        THEN CsvResult("eof", <<>>, Len(s) + 1)
        ELSE ParseField(s, q, cm, <<>>)

(***************************************************************************)
(* utf8.Valid over a byte range.  The buffer-backed parser checks the      *)
(* whole buffer; the file-backed parser checks each ChunkSize-byte read on *)
(* its own, so a multi-byte character cut by a read boundary is invalid    *)
(* in both chunks that hold a part of it.                                  *)
(***************************************************************************)
Utf8ValidWhole(s) == \A i \in 1..Len(s) : s[i] # "BAD"

Straddles(s, i) ==
    (Offset(s, i) \div ChunkSize) # ((Offset(s, i) + TokLen(s[i]) - 1) \div ChunkSize)

Utf8ValidChunked(s) ==
    \A i \in 1..Len(s) : s[i] # "BAD" /\ ~(s[i] = "E2" /\ Straddles(s, i))

(***************************************************************************)
(* Messages are records [kind, n1, n2, names]; two messages are the same   *)
(* text exactly when the records are equal.                                *)
(***************************************************************************)
Msg(k, a, b, ns) == [kind |-> k, n1 |-> a, n2 |-> b, names |-> ns]

(***************************************************************************)
(* schema.Validator.  A compiled schema is [required, props, additional]:  *)
(* the required property names, the declared properties with the types of  *)
(* each (in the order the schema lists them), and whether properties that  *)
(* are not declared are allowed; mins gives the minimum keyword of the     *)
(* properties that carry one.                                              *)
(***************************************************************************)
NoSchema == [none |-> TRUE]

Digits == {"0", "1"}

\* strconv.Atoi: a non-empty run of decimal digits that fits an int.
AtoiOk(raw) ==
    /\ raw # <<>>
    /\ \A i \in 1..Len(raw) : raw[i] \in Digits
    /\ Len(raw) <= 18

RECURSIVE AtoiVal(_)
AtoiVal(raw) ==
    IF raw = <<>> THEN 0
    ELSE 10 * AtoiVal(SubSeq(raw, 1, Len(raw) - 1))
         + (IF raw[Len(raw)] = "1" THEN 1 ELSE 0)

DigitTok(d) == <<"0", "1", "2", "3", "4", "5", "6", "7", "8", "9">>[d + 1]

\* fmt.Sprintf("%v", n) of a non-negative int.
RECURSIVE FormatInt(_)
FormatInt(n) ==
    IF n < 10 THEN <<DigitTok(n)>> ELSE Append(FormatInt(n \div 10), DigitTok(n % 10))

\* strconv.ParseFloat on the decimal forms the tokens can spell: digits with
\* at most one "." and at least one digit.
ParseFloatOk(raw) ==
    /\ \A i \in 1..Len(raw) : raw[i] \in Digits \cup {"."}
    /\ Cardinality({i \in 1..Len(raw) : raw[i] = "."}) <= 1
    /\ \E i \in 1..Len(raw) : raw[i] \in Digits
    /\ Len(raw) <= 15

DigitsOf(raw) == SelectSeq(raw, LAMBDA t : t \in Digits)

FracLen(raw) == IF \E i \in 1..Len(raw) : raw[i] = "."
                THEN Len(raw) - IndexFrom(raw, 1, {"."})
                ELSE 0

\* A decimal m / 10^sc without trailing zeros in the fraction.
RECURSIVE NormDec(_, _)
NormDec(m, sc) == IF sc > 0 /\ m % 10 = 0 THEN NormDec(m \div 10, sc - 1)
                  ELSE [m |-> m, sc |-> sc]

StringValue(raw) == [t |-> "string", s |-> raw, n |-> 0, sc |-> 0]
IntValue(k) == [t |-> "int", s |-> <<>>, n |-> k, sc |-> 0]
FloatValue(raw) ==
    LET d == NormDec(AtoiVal(DigitsOf(raw)), FracLen(raw))
    IN  [t |-> "float", s |-> <<>>, n |-> d.m, sc |-> d.sc]

\* The loop over prop.Types of ValidateRow: the first listed type that is
\* "integer" or "number" and parses the raw string wins; anything else
\* leaves the raw string.
RECURSIVE CoerceTypes(_, _)
CoerceTypes(types, raw) ==
    IF types = <<>> THEN StringValue(raw)
    ELSE IF Head(types) = "integer" /\ AtoiOk(raw) THEN IntValue(AtoiVal(raw))
    ELSE IF Head(types) = "number" /\ ParseFloatOk(raw) THEN FloatValue(raw)
    ELSE CoerceTypes(Tail(types), raw)

\* rowData of ValidateRow: header -> coerced value; a repeated header keeps
\* the value of its last column.
LastIndexOf(hs, h) == CHOOSE i \in 1..Len(hs) : hs[i] = h /\ \A j \in (i+1)..Len(hs) : hs[j] # h

BuildRowData(schema, hs, data) ==
    [h \in {hs[i] : i \in 1..Len(hs)} |->
        LET raw == data[LastIndexOf(hs, h)]
        IN  IF h \in DOMAIN schema.props
            THEN CoerceTypes(schema.props[h], raw)
            ELSE StringValue(raw)]

Zeros(k) == [i \in 1..k |-> "0"]

\* fmt.Sprintf("%v", f) of a non-negative float64 m / 10^sc: the shortest
\* decimal, in exponent form when the decimal exponent is below -4.
FormatFloat(m, sc) ==
    LET d == FormatInt(m)
    IN  IF sc = 0 THEN d
        ELSE IF Len(d) > sc
        THEN SubSeq(d, 1, Len(d) - sc) \o <<".">> \o SubSeq(d, Len(d) - sc + 1, Len(d))
        ELSE IF sc - Len(d) < 4
        THEN <<"0", ".">> \o Zeros(sc - Len(d)) \o d
        ELSE <<Head(d)>> \o (IF Len(d) > 1 THEN <<".">> \o Tail(d) ELSE <<>>)
             \o <<"e", "-">>
             \o (IF sc - Len(d) + 1 < 10 THEN <<"0">> ELSE <<>>)
             \o FormatInt(sc - Len(d) + 1)

\* Faulty variant of FormatValue: an integer is written with a leading zero.
FormatValuePadded(v) ==
    IF v.t = "int" THEN <<"0">> \o FormatInt(v.n)
    ELSE IF v.t = "float" THEN FormatFloat(v.n, v.sc)
    ELSE v.s

\* fmt.Sprintf("%v", val)
FormatValue(v) ==
    IF v.t = "int" THEN FormatInt(v.n)
    ELSE IF v.t = "float" THEN FormatFloat(v.n, v.sc)
    ELSE v.s

(***************************************************************************)
(* jsonschema.Schema.Validate on the row object.  The error is a tree      *)
(* [loc, msg, causes]; loc is the instance location: <<>> for the document *)
(* root, <<"/">> \o name for a property.  Errors of keywords of the root   *)
(* schema (required, additionalProperties) carry the root location; the    *)
(* error of a property's schema carries the property's location.           *)
(***************************************************************************)
Node(l, m, cs) == [loc |-> l, msg |-> m, causes |-> cs]

JsonType(v) == IF v.t = "string" THEN "string" ELSE "number"

TypeMatches(types, v) ==
    \/ types = <<>>
    \/ \E i \in 1..Len(types) :
          \/ types[i] = JsonType(v)
          \/ types[i] = "integer" /\ JsonType(v) = "number" /\ v.sc = 0

MissingProps(schema, rowData) == schema.required \ DOMAIN rowData

RECURSIVE Pow10(_)
Pow10(k) == IF k = 0 THEN 1 ELSE 10 * Pow10(k - 1)

\* The minimum keyword applies to numbers only: v = n / 10^sc is below it.
BelowMinimum(schema, h, v) ==
    /\ h \in DOMAIN schema.mins
    /\ JsonType(v) = "number"
    /\ v.n < schema.mins[h] * Pow10(v.sc)

BadProps(schema, rowData) ==
    {h \in DOMAIN rowData \cap DOMAIN schema.props :
        \/ ~TypeMatches(schema.props[h], rowData[h])
        \/ BelowMinimum(schema, h, rowData[h])}

ExtraProps(schema, rowData) ==
    IF schema.additional THEN {} ELSE DOMAIN rowData \ DOMAIN schema.props

\* All orders of a finite set (the property errors come out in the order of
\* a Go map iteration).
RECURSIVE Orders(_)
Orders(S) ==
    IF S = {} THEN {<<>>}
    ELSE UNION {{<<x>> \o o : o \in Orders(S \ {x})} : x \in S}

\* The causes of the root error for one order of the failing properties.
SchemaCauses(schema, rowData, order) ==
    (IF MissingProps(schema, rowData) # {}
     THEN <<Node(<<>>, Msg("required", 0, 0, MissingProps(schema, rowData)), <<>>)>>
     ELSE <<>>)
    \o [i \in 1..Len(order) |->
          Node(<<"/">> \o order[i],
               IF ~TypeMatches(schema.props[order[i]], rowData[order[i]])
               THEN Msg("type", 0, 0, {order[i]})
               ELSE Msg("minimum", schema.mins[order[i]], 0, {order[i]}),
               <<>>)]
    \o (IF ExtraProps(schema, rowData) # {}
        THEN <<Node(<<>>, Msg("additionalProperties", 0, 0, ExtraProps(schema, rowData)), <<>>)>>
        ELSE <<>>)

SchemaFails(schema, rowData) ==
    \/ MissingProps(schema, rowData) # {}
    \/ BadProps(schema, rowData) # {}
    \/ ExtraProps(schema, rowData) # {}

\* The set of error trees Validate may return (empty when the row validates).
SchemaValidate(schema, rowData) ==
    IF ~SchemaFails(schema, rowData) THEN {}
    ELSE {Node(<<>>, Msg("doesn't validate", 0, 0, {}), SchemaCauses(schema, rowData, o)) :
            o \in Orders(BadProps(schema, rowData))}

Issue(f, m, v) == [Field |-> f, Message |-> m, Value |-> v]

TrimSlash(loc) == IF loc # <<>> /\ Head(loc) = "/" THEN Tail(loc) ELSE loc

RECURSIVE convertValidationErrors(_, _)
RECURSIVE convertCauses(_, _)

\* Faulty variant of convertValidationErrors: the issue of a node comes
\* after the issues of its causes.
convertValidationErrorsCausesFirst(err, data) ==
    convertCauses(err.causes, data)
    \o (IF err.loc # <<>>
        THEN <<Issue(TrimSlash(err.loc), err.msg,
                     IF TrimSlash(err.loc) \in DOMAIN data
                     THEN FormatValue(data[TrimSlash(err.loc)])
                     ELSE Str_empty)>>
        ELSE <<>>)

convertValidationErrors(err, data) ==
    (IF err.loc # <<>>
     THEN <<Issue(TrimSlash(err.loc), err.msg,
                  IF TrimSlash(err.loc) \in DOMAIN data
                  THEN FormatValue(data[TrimSlash(err.loc)])
                  ELSE Str_empty)>>
     ELSE <<>>)
    \o convertCauses(err.causes, data)

convertCauses(cs, data) ==
    IF cs = <<>> THEN <<>>
    ELSE convertValidationErrors(Head(cs), data) \o convertCauses(Tail(cs), data)

NoRowData == [none |-> TRUE]
NoTree == [none |-> TRUE]

RowCall(is, rd, tr) == [issues |-> is, rowData |-> rd, tree |-> tr]

\* Faulty variant of ValidateRowCall: a row of the wrong length is cut to
\* the common length and validated before the mismatch is reported.
ValidateRowCallNoEarlyReturn(schema, hs, data) ==
    LET n == Min(Len(hs), Len(data))
        rowData == BuildRowData(schema, SubSeq(hs, 1, n), SubSeq(data, 1, n))
        mismatch == IF Len(hs) # Len(data)
                    THEN <<Issue(Str_row, Msg("mismatched columns", Len(hs), Len(data), {}),
                                 Str_empty)>>
                    ELSE <<>>
    IN  IF ~SchemaFails(schema, rowData) THEN {RowCall(mismatch, rowData, NoTree)}
        ELSE {RowCall(mismatch \o convertValidationErrors(e, rowData), rowData, e) :
                e \in SchemaValidate(schema, rowData)}

\* The possible runs of ValidateRow for one row: the issues returned, the
\* rowData built and the error schema.Validate returned.
ValidateRowCall(schema, hs, data) ==
    IF Len(hs) # Len(data)
    THEN {RowCall(<<Issue(Str_row, Msg("mismatched columns", Len(hs), Len(data), {}),
                          Str_empty)>>,
                  NoRowData, NoTree)}
    ELSE LET rowData == BuildRowData(schema, hs, data)
         IN  IF ~SchemaFails(schema, rowData) THEN {RowCall(<<>>, rowData, NoTree)}
             ELSE {RowCall(convertValidationErrors(e, rowData), rowData, e) :
                     e \in SchemaValidate(schema, rowData)}

\* The set of issue lists ValidateRow may return for one row.
ValidateRow(schema, hs, data) == {c.issues : c \in ValidateRowCall(schema, hs, data)}

(***************************************************************************)
(* validator.Validator.Validate, one action per step of the function.      *)
(***************************************************************************)
Error(ln, f, m, v, t) ==
    [LineNumber |-> ln, Field |-> f, Message |-> m, Value |-> v, Type |-> t]

Results(total, errs, valid, used) ==
    [File |-> "csv", TotalRows |-> total, Errors |-> errs, Warnings |-> <<>>,
     Valid |-> valid, SchemaUsed |-> used]

NoResults == Results(0, <<>>, FALSE, FALSE)

RetNone == [kind |-> "none", err |-> <<>>, res |-> NoResults]
\* Faulty variant of RetError: the error comes with the Results so far.
RetErrorWithPartial(chain) ==
    [kind |-> "error", err |-> chain,
     res |-> Results(totalRows, errors, FALSE, schemaV # NoSchema)]

RetError(chain) == [kind |-> "error", err |-> chain, res |-> NoResults]
RetResults(r) == [kind |-> "results", err |-> <<>>, res |-> r]

\* The schema the runs with a schema are given: property "1" must be an integer.
SchemaOne ==
    [required |-> {<<"1">>}, props |-> (<<"1">> :> <<"integer">>), additional |-> FALSE,
     mins |-> <<>>]

StructToks == {"1", ",", "NL"}
QuoteToks == {"1", ",", "NL", "Q"}
TailToks == {"E2", "BAD"}
DelimToks == {"1", ",", ";", "NL"}

\* The inputs of the runs: plain inputs of digits, commas and line feeds,
\* and inputs with quotes that may end in a tail of non-ASCII tokens,
\* possibly after a pad that fills the first read chunk up to its last byte.
EngineInputs ==
    SeqsUpTo(StructToks, MaxLen)
    \cup {s \o p \o t : s \in SeqsUpTo(QuoteToks, MaxQuoteLen),
                        p \in {<<>>, <<"PAD">>},
                        t \in SeqsUpTo(TailToks, MaxEncLen)}

EngineConfigs ==
    {[input |-> i, delimiter |-> ",", openOk |-> TRUE] : i \in EngineInputs}
    \cup {[input |-> i, delimiter |-> ";", openOk |-> TRUE] :
            i \in SeqsUpTo(DelimToks, MaxDelimLen)}
    \cup {[input |-> <<>>, delimiter |-> ",", openOk |-> FALSE]}

\* No ValidateRow call and no ResolveSchema call is under way.
RowIdle ==
    /\ rvSchema = NoSchema
    /\ rvHeaders = <<>>
    /\ rvData = <<>>
    /\ rvIssues = <<>>
    /\ rvRowData = NoRowData
    /\ rvTree = NoTree
    /\ rvEmpty = FALSE
    /\ rvPc = "idle"

ResolveIdle ==
    /\ files = {}
    /\ dirs = {}
    /\ cwd = <<>>
    /\ csvPath = [abs |-> TRUE, comps |-> <<>>]
    /\ rdir = [abs |-> TRUE, comps |-> <<>>]
    /\ rpc = "idle"
    /\ stopped = ""
    /\ resolved = [found |-> FALSE, path |-> [abs |-> TRUE, comps |-> <<>>]]

\* No run of the validate command is under way.
NoPath == [set |-> FALSE, kind |-> "none"]
NoExit == 0 - 1
NoArgs == [none |-> TRUE]

CliIdle ==
    /\ argv = NoArgs
    /\ source = <<>>
    /\ schemaPath = NoPath
    /\ cliPc = "idle"
    /\ exitCode = NoExit
    /\ output = RetNone

\* No report is being encoded.
JsonIdle ==
    /\ jrIn = <<>>
    /\ jrDoc = <<>>
    /\ jrOut = <<>>
    /\ jrPc = "idle"

Init ==
    /\ RowIdle
    /\ ResolveIdle
    /\ CliIdle
    /\ JsonIdle
    /\ \E c \in EngineConfigs :
          /\ input = c.input
          /\ delimiter = c.delimiter
          /\ openOk = c.openOk
    /\ impl \in {"file", "buffer"}
    /\ failFast \in BOOLEAN
    /\ schemaV \in {NoSchema, SchemaOne}
    /\ pc = "start"
    /\ comma = ","
    /\ pos = 1
    /\ lineNumber = 0
    /\ headers = <<>>
    /\ errors = <<>>
    /\ totalRows = 0
    /\ reads = 0
    /\ ret = RetNone

config == <<input, delimiter, impl, failFast, schemaV, openOk>>

\* parser.NewParser: opens the file (or copies the stream into the buffer)
\* and builds the first record reader with the delimiter's first byte.
NewParser ==
    /\ pc = "start"
    /\ IF openOk
       THEN /\ comma' = delimiter
            /\ pos' = 1
            /\ pc' = "utf8"
            /\ ret' = ret
       ELSE /\ ret' = RetError(<<"failed to create parser">>)
            /\ pc' = "done"
            /\ UNCHANGED <<comma, pos>>
    /\ UNCHANGED <<config, lineNumber, headers, errors, totalRows, reads>>
    /\ UNCHANGED <<rowVars, resolveVars, cliVars, jsonVars>>

\* Faulty variant of Utf8Ok: only the first read chunk is checked.
Utf8OkFirstChunk(kind, s) ==
    \A i \in 1..Len(s) : Offset(s, i) < ChunkSize => s[i] # "BAD"

\* What ValidateUTF8 accepts: the whole buffer at once, or every read chunk.
Utf8Ok(kind, s) == IF kind = "buffer" THEN Utf8ValidWhole(s) ELSE Utf8ValidChunked(s)

\* Reader.Comma of the reader ValidateUTF8 builds: the buffer-backed parser
\* sets the stored delimiter; the file-backed parser assigns the new
\* reader's Comma to itself, which leaves csv.NewReader's default.
CommaAfterUTF8(kind, d, old) == IF kind = "buffer" THEN d ELSE ","

\* Parser.ValidateUTF8 and the encoding short-circuit of Validate.
ValidateUTF8 ==
    /\ pc = "utf8"
    /\ IF Utf8Ok(impl, input)
       THEN /\ comma' = CommaAfterUTF8(impl, delimiter, comma)
            /\ pos' = 1
            /\ pc' = "headers"
            /\ ret' = ret
       ELSE /\ ret' = RetResults(
                 [File |-> "csv", TotalRows |-> 0,
                  Errors |-> <<Error(0, Str_empty, Msg("invalid UTF-8", 0, 0, {}),
                                     Str_empty, "encoding")>>,
                  Warnings |-> <<>>, Valid |-> FALSE, SchemaUsed |-> FALSE])
            /\ pc' = "done"
            /\ UNCHANGED <<comma, pos>>
    /\ UNCHANGED <<config, lineNumber, headers, errors, totalRows, reads>>
    /\ UNCHANGED <<rowVars, resolveVars, cliVars, jsonVars>>

\* The error of ReadHeaders when the reader is at the end of the input.
EmptyInputError(kind) ==
    IF kind = "buffer" THEN <<"empty input: no headers found">>
    ELSE <<"failed to read headers", "EOF">>

\* Faulty variant of ReadHeaders: the end of the input is taken for an empty header.
ReadHeadersLenient ==
    /\ pc = "headers"
    /\ LET r == ReadRecord(input, pos, comma)
       IN  IF r.kind # "err"
           THEN /\ lineNumber' = lineNumber + 1
                /\ headers' = r.fields
                /\ pos' = r.next
                /\ pc' = "rows"
                /\ ret' = ret
           ELSE /\ ret' = RetError(<<"failed to read headers", "failed to read headers",
                                     "parse error">>)
                /\ pos' = r.next
                /\ pc' = "done"
                /\ UNCHANGED <<lineNumber, headers>>
    /\ UNCHANGED <<config, comma, errors, totalRows, reads>>
    /\ UNCHANGED <<rowVars, resolveVars, cliVars, jsonVars>>

\* Parser.ReadHeaders and the abort of Validate when it fails.
ReadHeaders ==
    /\ pc = "headers"
    /\ LET r == ReadRecord(input, pos, comma)
       IN  IF r.kind = "rec"
           THEN /\ lineNumber' = lineNumber + 1
                /\ headers' = r.fields
                /\ pos' = r.next
                /\ pc' = "rows"
                /\ ret' = ret
           ELSE /\ ret' = RetError(<<"failed to read headers">> \o
                                   (IF r.kind = "eof" THEN EmptyInputError(impl)
                                    ELSE <<"failed to read headers", "parse error">>))
                /\ pos' = r.next
                /\ pc' = "done"
                /\ UNCHANGED <<lineNumber, headers>>
    /\ UNCHANGED <<config, comma, errors, totalRows, reads>>
    /\ UNCHANGED <<rowVars, resolveVars, cliVars, jsonVars>>

\* Faulty variant of StructureErrors: only rows that are too short are reported.
StructureErrorsShortOnly(hs, row, ln) ==
    IF Len(row) < Len(hs)
    THEN <<Error(ln, Str_row, Msg("column count mismatch", Len(hs), Len(row), {}),
                 Str_empty, "structure")>>
    ELSE <<>>

\* The structure check of one row.
StructureErrors(hs, row, ln) ==
    IF Len(row) # Len(hs)
    THEN <<Error(ln, Str_row, Msg("column count mismatch", Len(hs), Len(row), {}),
                 Str_empty, "structure")>>
    ELSE <<>>

\* Faulty variant of SchemaErrors: the issues on the whole row are left out.
SchemaErrorsFieldsOnly(issues, ln) ==
    LET kept == SelectSeq(issues, LAMBDA x : x.Field # Str_row)
    IN  [i \in 1..Len(kept) |->
            Error(ln, kept[i].Field, kept[i].Message, kept[i].Value, "schema")]

\* The schema errors of one row, from the issues ValidateRow returned.
SchemaErrors(issues, ln) ==
    [i \in 1..Len(issues) |->
        Error(ln, issues[i].Field, issues[i].Message, issues[i].Value, "schema")]

\* Faulty variant of FailFastStop: the loop never stops early.
FailFastStopNever(ff, errs) == FALSE

\* Faulty variant of FailFastStop: the loop stops only once two errors are recorded.
FailFastStopLate(ff, errs) == ff /\ Len(errs) > 1

\* Faulty variant of FailFastStop: the loop stops at the first error always.
FailFastStopAlways(ff, errs) == Len(errs) > 0

\* Whether the loop stops after a row.
FailFastStop(ff, errs) == ff /\ Len(errs) > 0

\* Faulty variant of ReadRowLine: the counter is not advanced.
ReadRowLineStuck(ln) == ln

\* p.lineNumber++ of ReadRow; the row returned carries the new value.
ReadRowLine(ln) == ln + 1

\* One iteration of the row loop: Parser.ReadRow, then the structure check,
\* the schema check and the fail-fast test.
ValidateRowStep ==
    /\ pc = "rows"
    /\ reads' = reads + 1
    /\ LET r == ReadRecord(input, pos, comma)
       IN  /\ pos' = r.next
           /\ CASE r.kind = "eof" ->
                     /\ pc' = "finish"
                     /\ UNCHANGED <<lineNumber, totalRows, errors, ret>>
                [] r.kind = "err" ->
                     /\ pc' = "done"
                     /\ ret' = RetError(<<"failed to read row", "parse error">>)
                     /\ UNCHANGED <<lineNumber, totalRows, errors>>
                [] r.kind = "rec" ->
                     /\ lineNumber' = ReadRowLine(lineNumber)
                     /\ totalRows' = totalRows + 1
                     /\ \E issues \in (IF schemaV = NoSchema THEN {<<>>}
                                       ELSE ValidateRow(schemaV, headers, r.fields)) :
                           errors' = errors
                                     \o StructureErrors(headers, r.fields, lineNumber')
                                     \o SchemaErrors(issues, lineNumber')
                     /\ pc' = IF FailFastStop(failFast, errors') THEN "finish" ELSE "rows"
                     /\ ret' = ret
    /\ UNCHANGED <<config, comma, headers>>
    /\ UNCHANGED <<rowVars, resolveVars, cliVars, jsonVars>>

\* Faulty variant of ValidOf: a single error still counts as valid.
ValidOfLenient(errs) == Len(errs) <= 1

\* valid := len(errors) == 0
ValidOf(errs) == Len(errs) = 0

\* The Results Validate builds after the loop.
ReturnResults ==
    /\ pc = "finish"
    /\ ret' = RetResults(Results(totalRows, errors, ValidOf(errors), schemaV # NoSchema))
    /\ pc' = "done"
    /\ UNCHANGED <<config, comma, pos, lineNumber, headers, errors, totalRows, reads>>
    /\ UNCHANGED <<rowVars, resolveVars, cliVars, jsonVars>>

Next ==
    \/ NewParser
    \/ ValidateUTF8
    \/ ReadHeaders
    \/ ValidateRowStep
    \/ ReturnResults

Spec == Init /\ [][Next]_vars

(***************************************************************************)
(* Reference notions the properties are stated with.                       *)
(***************************************************************************)
\* The records of s from position p, up to the end or the first parse error.
RECURSIVE ParsedPrefix(_, _, _)
ParsedPrefix(s, p, cm) ==
    LET r == ReadRecord(s, p, cm)
    IN  IF r.kind = "rec" THEN <<r.fields>> \o ParsedPrefix(s, r.next, cm) ELSE <<>>

\* Whether every record of s parses.
RECURSIVE ParsesFully(_, _, _)
ParsesFully(s, p, cm) ==
    LET r == ReadRecord(s, p, cm)
    IN  IF r.kind = "rec" THEN ParsesFully(s, r.next, cm) ELSE r.kind = "eof"

Done == pc = "done"

HasBad(s) == \E i \in 1..Len(s) : s[i] = "BAD"

\* The possible error lists of the data row with the fields row at line ln.
RowErrorLists(hs, row, ln) ==
    {StructureErrors(hs, row, ln) \o SchemaErrors(issues, ln) :
        issues \in (IF schemaV = NoSchema THEN {<<>>} ELSE ValidateRow(schemaV, hs, row))}

RowOffends(hs, row, ln) == <<>> \notin RowErrorLists(hs, row, ln)

(***************************************************************************)
(* C1: a well-formed UTF-8 input whose R data rows all have as many fields *)
(* as the header, validated without a schema, yields Results with          *)
(* Valid = TRUE, no Errors and TotalRows = R.  Stated for the runs with    *)
(* the default "," delimiter.                                              *)
(***************************************************************************)
C1_WellFormed ==
    LET recs == ParsedPrefix(input, 1, delimiter)
    IN  /\ openOk
        /\ ~HasBad(input)
        /\ ParsesFully(input, 1, delimiter)
        /\ Len(recs) >= 1
        /\ \A k \in 2..Len(recs) : Len(recs[k]) = Len(recs[1])

C1_ValidInputIsValid ==
    (Done /\ delimiter = "," /\ schemaV = NoSchema /\ C1_WellFormed)
    => /\ ret.kind = "results"
       /\ ret.res.Valid
       /\ ret.res.Errors = <<>>
       /\ ret.res.TotalRows = Len(ParsedPrefix(input, 1, delimiter)) - 1

(***************************************************************************)
(* C2: every data row read so far whose field count differs from the       *)
(* header's has exactly one structure error, stamped with the row's        *)
(* position among the records (the header being 1); rows with the header's *)
(* field count have none, and the Results carry the same errors.           *)
(***************************************************************************)
StructureErrorsAt(errs, ln) ==
    {i \in 1..Len(errs) : errs[i].Type = "structure" /\ errs[i].LineNumber = ln}

C2_OneStructureErrorPerRaggedRow ==
    LET recs == ParsedPrefix(input, 1, comma)
    IN  (pc \in {"rows", "finish", "done"} /\ lineNumber >= 1)
        => /\ totalRows + 1 <= Len(recs)
           /\ \A k \in 1..totalRows :
                 Cardinality(StructureErrorsAt(errors, k + 1))
                    = IF Len(recs[k + 1]) # Len(recs[1]) THEN 1 ELSE 0
           /\ \A i \in 1..Len(errors) :
                 errors[i].Type = "structure" => errors[i].LineNumber \in 2..(totalRows + 1)
           /\ (ret.kind = "results" => ret.res.Errors = errors)

C2_Witness ==
    /\ Done
    /\ ret.kind = "results"
    /\ totalRows >= 2
    /\ Len(headers) = 2
    /\ \E i \in 1..Len(ret.res.Errors) :
          /\ ret.res.Errors[i].Type = "structure"
          /\ ret.res.Errors[i].LineNumber = 3
    /\ StructureErrorsAt(errors, 2) = {}

(***************************************************************************)
(* C3: when the input's rows all parse and at least two of them have       *)
(* errors, the fail-fast run returns Results whose Errors are exactly the  *)
(* errors of the first offending row and whose TotalRows is that row's     *)
(* ordinal, which is below the number of data rows (the TotalRows of the   *)
(* run without fail-fast) whenever a later row exists.                     *)
(***************************************************************************)
OffendingRows(recs) ==
    {k \in 1..(Len(recs) - 1) : RowOffends(recs[1], recs[k + 1], k + 1)}

FirstOffending(recs) ==
    CHOOSE k \in OffendingRows(recs) : \A j \in OffendingRows(recs) : k <= j

C3_Applies ==
    /\ failFast
    /\ openOk
    /\ Utf8Ok(impl, input)
    /\ ParsesFully(input, 1, CommaAfterUTF8(impl, delimiter, delimiter))
    /\ Cardinality(OffendingRows(
          ParsedPrefix(input, 1, CommaAfterUTF8(impl, delimiter, delimiter)))) >= 2

C3_FailFastStopsAtFirstOffendingRow ==
    LET recs == ParsedPrefix(input, 1, CommaAfterUTF8(impl, delimiter, delimiter))
        k == FirstOffending(recs)
    IN  (Done /\ C3_Applies)
        => /\ ret.kind = "results"
           /\ ret.res.Errors \in RowErrorLists(recs[1], recs[k + 1], k + 1)
           /\ ret.res.TotalRows = k
           /\ reads = k
           /\ (k < Len(recs) - 1 => ret.res.TotalRows < Len(recs) - 1)

C3_Witness ==
    /\ Done
    /\ C3_Applies
    /\ ret.kind = "results"
    /\ ret.res.TotalRows = 2
    /\ Len(ret.res.Errors) = 1
    /\ Len(ParsedPrefix(input, 1, comma)) = 4

(***************************************************************************)
(* C4: an input with an invalid UTF-8 byte anywhere yields Results (no     *)
(* operational error) with exactly one Error, of type encoding,            *)
(* Valid = FALSE and TotalRows = 0, and neither the header nor a row was   *)
(* read.                                                                   *)
(***************************************************************************)
C4_InvalidUtf8IsOneEncodingError ==
    (Done /\ openOk /\ HasBad(input))
    => /\ ret.kind = "results"
       /\ Len(ret.res.Errors) = 1
       /\ ret.res.Errors[1].Type = "encoding"
       /\ ret.res.Valid = FALSE
       /\ ret.res.TotalRows = 0
       /\ lineNumber = 0
       /\ headers = <<>>
       /\ reads = 0

C4_Witness ==
    /\ Done
    /\ Len(input) >= 5
    /\ input[Len(input)] = "BAD"
    /\ ~HasBad(SubSeq(input, 1, Len(input) - 1))
    /\ Len(ParsedPrefix(SubSeq(input, 1, Len(input) - 1), 1, delimiter)) >= 2
    /\ ret.kind = "results"
    /\ ret.res.Errors[1].Type = "encoding"

SchemaAB ==
    [required |-> {<<"a">>, <<"b">>}, props |-> <<>>, additional |-> FALSE,
     mins |-> <<>>]

\* The same with "a" declared an integer and "b" a string.
SchemaTyped ==
    [required |-> {<<"a">>, <<"b">>},
     props |-> (<<"a">> :> <<"integer">>) @@ (<<"b">> :> <<"string">>),
     additional |-> FALSE,
     mins |-> <<>>]

\* Both numeric types declared, in the two orders a schema can list them.
SchemaBothTypes ==
    [required |-> {},
     props |-> (<<"a">> :> <<"number", "integer">>) @@ (<<"b">> :> <<"integer", "number">>),
     additional |-> TRUE,
     mins |-> <<>>]

\* Numeric properties with a minimum of 2.
SchemaMinimum ==
    [required |-> {},
     props |-> (<<"a">> :> <<"integer">>) @@ (<<"b">> :> <<"number">>),
     additional |-> TRUE,
     mins |-> (<<"a">> :> 2) @@ (<<"b">> :> 2)]

RowSchemas == {SchemaAB, SchemaTyped, SchemaBothTypes, SchemaMinimum}
RowNames == {<<"a">>, <<"b">>}
RowFields == {<<>>, <<"1">>, <<"a">>, <<"0", "1">>, <<"1", ".", "0">>}

EngineIdle ==
    /\ input = <<>>
    /\ delimiter = ","
    /\ impl = "buffer"
    /\ failFast = FALSE
    /\ schemaV = NoSchema
    /\ openOk = TRUE
    /\ pc = "idle"
    /\ comma = ","
    /\ pos = 1
    /\ lineNumber = 0
    /\ headers = <<>>
    /\ errors = <<>>
    /\ totalRows = 0
    /\ reads = 0
    /\ ret = RetNone

InitRow ==
    /\ EngineIdle
    /\ ResolveIdle
    /\ CliIdle
    /\ JsonIdle
    /\ rvSchema \in RowSchemas
    /\ rvHeaders \in SeqsUpTo(RowNames, MaxCols) \ {<<>>}
    /\ rvData \in SeqsUpTo(RowFields, MaxCols) \ {<<>>}
    /\ rvIssues = <<>>
    /\ rvRowData = NoRowData
    /\ rvTree = NoTree
    /\ rvEmpty = FALSE
    /\ rvPc = "call"

CallValidateRow ==
    /\ rvPc = "call"
    /\ \E c \in ValidateRowCall(rvSchema, rvHeaders, rvData) :
          /\ rvIssues' = c.issues
          /\ rvRowData' = c.rowData
          /\ rvTree' = c.tree
    /\ rvPc' = "done"
    /\ UNCHANGED <<rvSchema, rvHeaders, rvData, rvEmpty>>
    /\ UNCHANGED <<engineVars, resolveVars, cliVars, jsonVars>>

NextRow == CallValidateRow

SpecRow == InitRow /\ [][NextRow]_vars

(***************************************************************************)
(* C6: with the schema {required: [a, b], type: object,                    *)
(* additionalProperties: false}, validating a row in which field b is      *)
(* missing returns at least one issue whose Field is b.  Stated for the    *)
(* rows that have a value for every column and no column b.                *)
(***************************************************************************)
Columns(hs) == {hs[i] : i \in 1..Len(hs)}

RowMissesB ==
    /\ Len(rvData) = Len(rvHeaders)
    /\ <<"b">> \notin Columns(rvHeaders)

C6_MissingRequiredFieldIsReported ==
    (rvPc = "done" /\ rvSchema = SchemaAB /\ RowMissesB)
    => \E i \in 1..Len(rvIssues) : rvIssues[i].Field = <<"b">>

(***************************************************************************)
(* C21: ValidateRow(headers, fields) with len(headers) # len(fields)       *)
(* returns exactly one synthetic issue describing the column-count         *)
(* mismatch (Field "row", both counts in the message, empty Value) and no  *)
(* error, without building the mapping, coercing any field or invoking     *)
(* schema validation.                                                      *)
(***************************************************************************)
C21_MismatchReturnsOneSyntheticIssue ==
    (rvPc = "done" /\ Len(rvHeaders) # Len(rvData))
    => /\ Len(rvIssues) = 1
       /\ rvIssues[1].Field = Str_row
       /\ rvIssues[1].Message.kind = "mismatched columns"
       /\ rvIssues[1].Message.n1 = Len(rvHeaders)
       /\ rvIssues[1].Message.n2 = Len(rvData)
       /\ rvIssues[1].Value = Str_empty
       /\ rvRowData = NoRowData
       /\ rvTree = NoTree

\* A mismatched row whose common columns alone would fail the schema.
C21_Witness ==
    /\ rvPc = "done"
    /\ rvSchema = SchemaTyped
    /\ rvHeaders = << <<"a">>, <<"b">> >>
    /\ rvData = << <<"a">> >>
    /\ Len(rvIssues) = 1

(***************************************************************************)
(* C22: the value validated for a field is a pure function of the set of   *)
(* types the property declares and of the raw string, with a fixed trial   *)
(* order that does not depend on the order in which the schema lists the   *)
(* types: an integer if "integer" is declared and the string parses as an  *)
(* integer, otherwise a number if "number" is declared and the string      *)
(* parses as a number, otherwise the original string (also when the header *)
(* is not a declared property).                                            *)
(***************************************************************************)
DeclaredTypes(schema, h) ==
    IF h \in DOMAIN schema.props
    THEN {schema.props[h][i] : i \in 1..Len(schema.props[h])}
    ELSE {}

FixedOrderValue(declared, raw) ==
    IF "integer" \in declared /\ AtoiOk(raw) THEN IntValue(AtoiVal(raw))
    ELSE IF "number" \in declared /\ ParseFloatOk(raw) THEN FloatValue(raw)
    ELSE StringValue(raw)

C22_CoercionHasFixedTrialOrder ==
    (rvPc = "done" /\ rvRowData # NoRowData)
    => \A i \in 1..Len(rvHeaders) :
          (i = LastIndexOf(rvHeaders, rvHeaders[i]))
          => rvRowData[rvHeaders[i]]
               = FixedOrderValue(DeclaredTypes(rvSchema, rvHeaders[i]), rvData[i])

(***************************************************************************)
(* schema.ResolveSchema.  A path is [abs, comps]: whether it starts at the *)
(* file system root, and its components; a component is a name, the        *)
(* sequence of its dot-separated parts.  The relative path with no         *)
(* component is ".".                                                       *)
(***************************************************************************)
Path(a, c) == [abs |-> a, comps |-> c]

SchemaFile == <<"csvlinter", "schema", "json">>
GitName == <<"", "git">>
PackageJson == <<"package", "json">>

\* var projectRootIndicators = []string{".git", "package.json"}
projectRootIndicators == <<GitName, PackageJson>>

Front(q) == SubSeq(q, 1, Len(q) - 1)
Last(q) == q[Len(q)]

\* filepath.Dir: the path without its last component; "/" and "." are
\* their own Dir.
PathDir(p) == IF p.comps = <<>> THEN p ELSE Path(p.abs, Front(p.comps))

\* filepath.Base
PathBase(p) == Last(p.comps)

\* filepath.Join(dir, name)
PathJoin(p, name) == Path(p.abs, Append(p.comps, name))

\* csvBase[:len(csvBase)-len(filepath.Ext(csvBase))]
TrimExt(name) == IF Len(name) > 1 THEN Front(name) ELSE name

\* csvName + ".schema.json"
NamedSchema(base) == TrimExt(base) \o <<"schema", "json">>

\* The absolute path the operating system resolves p to.
Absolute(p) == IF p.abs THEN p.comps ELSE cwd \o p.comps

\* os.Stat succeeds and the entry is not a directory.
fileExists(p) == Absolute(p) \in files

isProjectRoot(dir) ==
    \E i \in 1..Len(projectRootIndicators) :
        fileExists(PathJoin(dir, projectRootIndicators[i]))

isSystemRoot(dir) == PathDir(dir) = dir

NotFound == [found |-> FALSE, path |-> Path(TRUE, <<>>)]
Found(p) == [found |-> TRUE, path |-> p]

\* The directories of the file systems: one chain below the root.
DirName(i) == <<<<"d1">>, <<"d2">>, <<"d3">>, <<"d4">>, <<"d5">>>>[i]
ChainDir(i) == [k \in 1..i |-> DirName(k)]

Markers == {"none", "gitdir", "gitfile", "pkg"}
CsvBases == {<<"data", "csv">>, <<"csvlinter", "csv">>}

InitResolve ==
    /\ EngineIdle
    /\ RowIdle
    /\ CliIdle
    /\ JsonIdle
    /\ \E d \in 0..MaxDepth :
       \E lay \in [0..d -> [schema : BOOLEAN, marker : Markers]] :
       \E named \in BOOLEAN :
       \E base \in CsvBases :
       \E c \in -1..d :
          /\ files = {Append(ChainDir(i), SchemaFile) : i \in {j \in 0..d : lay[j].schema}}
                     \cup {Append(ChainDir(i), GitName) :
                              i \in {j \in 0..d : lay[j].marker = "gitfile"}}
                     \cup {Append(ChainDir(i), PackageJson) :
                              i \in {j \in 0..d : lay[j].marker = "pkg"}}
                     \cup (IF named THEN {Append(ChainDir(d), NamedSchema(base))} ELSE {})
                     \cup {Append(ChainDir(d), base)}
          /\ dirs = {ChainDir(i) : i \in 0..d}
                    \cup {Append(ChainDir(i), GitName) :
                             i \in {j \in 0..d : lay[j].marker = "gitdir"}}
          /\ cwd = IF c = -1 THEN <<>> ELSE ChainDir(c)
          /\ csvPath = IF c = -1
                       THEN Path(TRUE, Append(ChainDir(d), base))
                       ELSE Path(FALSE, Append(SubSeq(ChainDir(d), c + 1, d), base))
    /\ rdir = Path(TRUE, <<>>)
    /\ rpc = "local"
    /\ stopped = ""
    /\ resolved = NotFound

\* Steps 1 and 2: the two candidates in the directory of the CSV file.
ResolveLocal ==
    /\ rpc = "local"
    /\ LET csvDir == PathDir(csvPath)
           c1 == PathJoin(csvDir, NamedSchema(PathBase(csvPath)))
           c2 == PathJoin(csvDir, SchemaFile)
       IN  IF fileExists(c1)
           THEN resolved' = Found(c1) /\ rpc' = "done" /\ stopped' = "found" /\ rdir' = csvDir
           ELSE IF fileExists(c2)
           THEN resolved' = Found(c2) /\ rpc' = "done" /\ stopped' = "found" /\ rdir' = csvDir
           ELSE resolved' = resolved /\ rpc' = "walk" /\ stopped' = stopped /\ rdir' = csvDir
    /\ UNCHANGED <<files, dirs, cwd, csvPath>>
    /\ UNCHANGED <<engineVars, rowVars, cliVars, jsonVars>>

\* Faulty variant of ResolveWalk: dir is not replaced by its parent.
ResolveWalkNoAscent ==
    /\ rpc = "walk"
    /\ IF isProjectRoot(rdir) \/ isSystemRoot(rdir)
       THEN resolved' = NotFound /\ rpc' = "done" /\ stopped' = "root" /\ rdir' = rdir
       ELSE IF fileExists(PathJoin(rdir, SchemaFile))
       THEN /\ resolved' = Found(PathJoin(rdir, SchemaFile))
            /\ rpc' = "done" /\ stopped' = "found" /\ rdir' = rdir
       ELSE IF PathDir(rdir) = rdir
       THEN resolved' = NotFound /\ rpc' = "done" /\ stopped' = "top" /\ rdir' = rdir
       ELSE resolved' = resolved /\ rpc' = "walk" /\ stopped' = stopped /\ rdir' = rdir
    /\ UNCHANGED <<files, dirs, cwd, csvPath>>
    /\ UNCHANGED <<engineVars, rowVars, cliVars, jsonVars>>

\* Step 3: one iteration of the upward walk.
ResolveWalk ==
    /\ rpc = "walk"
    /\ IF isProjectRoot(rdir) \/ isSystemRoot(rdir)
       THEN resolved' = NotFound /\ rpc' = "done" /\ stopped' = "root" /\ rdir' = rdir
       ELSE IF fileExists(PathJoin(rdir, SchemaFile))
       THEN /\ resolved' = Found(PathJoin(rdir, SchemaFile))
            /\ rpc' = "done" /\ stopped' = "found" /\ rdir' = rdir
       ELSE IF PathDir(rdir) = rdir
       THEN resolved' = NotFound /\ rpc' = "done" /\ stopped' = "top" /\ rdir' = rdir
       ELSE resolved' = resolved /\ rpc' = "walk" /\ stopped' = stopped /\ rdir' = PathDir(rdir)
    /\ UNCHANGED <<files, dirs, cwd, csvPath>>
    /\ UNCHANGED <<engineVars, rowVars, cliVars, jsonVars>>

NextResolve ==
    \/ ResolveLocal
    \/ ResolveWalk

SpecResolve == InitResolve /\ [][NextResolve]_vars

(***************************************************************************)
(* Reference notions of the resolver's properties.                         *)
(***************************************************************************)
ResolveDone == rpc = "done"

\* The directory of the CSV file, and what lies in a directory d (absolute).
CsvDirAbs == Front(Absolute(csvPath))
HasSchema(d) == Append(d, SchemaFile) \in files
HasNamed == Append(CsvDirAbs, NamedSchema(PathBase(csvPath))) \in files
HasMarker(d) ==
    \/ Append(d, GitName) \in files \cup dirs
    \/ Append(d, PackageJson) \in files
IsPrefix(a, b) == Len(a) <= Len(b) /\ SubSeq(b, 1, Len(a)) = a

\* The ancestors of the CSV directory, itself included, by their depth.
Ancestor(k) == SubSeq(CsvDirAbs, 1, k)

\* The absolute location of the file returned.
ResolvedAbs == Absolute(resolved.path)

(***************************************************************************)
(* C7: when the upward walk stops at a directory because it is a project   *)
(* root or the file system root, that directory's own                      *)
(* csvlinter.schema.json is returned if it exists.  Stated for absolute    *)
(* CSV paths.                                                              *)
(***************************************************************************)
C7_RootOwnSchemaIsChecked ==
    (ResolveDone /\ csvPath.abs /\ stopped = "root" /\ HasSchema(Absolute(rdir)))
    => /\ resolved.found
       /\ ResolvedAbs = Append(Absolute(rdir), SchemaFile)

(***************************************************************************)
(* C8: the schema returned never lies in a strict ancestor of a directory  *)
(* on the way up from the CSV directory that holds a .git entry (a         *)
(* directory or a file) or a package.json.                                 *)
(***************************************************************************)
C8_NeverAboveProjectRoot ==
    (ResolveDone /\ resolved.found)
    => ~\E k \in 0..Len(CsvDirAbs) :
           /\ HasMarker(Ancestor(k))
           /\ Len(ResolvedAbs) - 1 < k

(***************************************************************************)
(* C9: the result is the first existing candidate in the order             *)
(* <dir>/<name>.schema.json, <dir>/csvlinter.schema.json, then the         *)
(* csvlinter.schema.json of the nearest ancestor that has one, the search  *)
(* ending with the first project root (as isProjectRoot tells it) or the   *)
(* file system root, whose own file still counts; the empty string is      *)
(* returned only when none of them exists.                                 *)
(***************************************************************************)
MarkedAsRoot(d) == Append(d, GitName) \in files \/ Append(d, PackageJson) \in files

\* The depth at which the upward search ends: the nearest ancestor that is
\* a project root, or 0 for the file system root.
SearchTop ==
    LET tops == {k \in 0..Len(CsvDirAbs) : k = 0 \/ MarkedAsRoot(Ancestor(k))}
    IN  CHOOSE k \in tops : \A j \in tops : j <= k

WalkHits == {k \in SearchTop..Len(CsvDirAbs) : HasSchema(Ancestor(k))}

NearestHit == CHOOSE k \in WalkHits : \A j \in WalkHits : j <= k

C9_FirstCandidateWins ==
    ResolveDone
    => IF HasNamed
       THEN resolved.found
            /\ ResolvedAbs = Append(CsvDirAbs, NamedSchema(PathBase(csvPath)))
       ELSE IF WalkHits # {}
       THEN resolved.found /\ ResolvedAbs = Append(Ancestor(NearestHit), SchemaFile)
       ELSE ~resolved.found

(***************************************************************************)
(* C10: with no schema in the directory of the CSV file, the resolver      *)
(* returns the csvlinter.schema.json of the nearest parent directory that  *)
(* has one, for absolute and for relative CSV paths.  Stated for file      *)
(* systems without project-root markers and without a schema in the file   *)
(* system root.                                                            *)
(***************************************************************************)
ParentHits == {k \in 0..(Len(CsvDirAbs) - 1) : HasSchema(Ancestor(k))}

C10_WalksUpForAnyPath ==
    (/\ ResolveDone
     /\ ~HasNamed
     /\ ~HasSchema(CsvDirAbs)
     /\ ~HasSchema(<<>>)
     /\ \A k \in 0..Len(CsvDirAbs) : ~HasMarker(Ancestor(k))
     /\ ParentHits # {})
    => /\ resolved.found
       /\ ResolvedAbs =
             Append(Ancestor(CHOOSE k \in ParentHits : \A j \in ParentHits : j <= k),
                    SchemaFile)

(***************************************************************************)
(* cmd.validateAction: one run of the validate command.  The command line  *)
(* is the record argv:                                                     *)
(*   narg       whether the CSV argument is given                          *)
(*   stdin      whether the argument is "-"                                *)
(*   schemaFlag --schema: "none" (not given), or the file it names is      *)
(*              "ok" (compiles), "bad" (does not compile) or "missing"     *)
(*   format     --format                                                   *)
(*   failFast   --fail-fast                                                *)
(*   maxSize    --max-size                                                 *)
(*   filename   whether --filename is given                                *)
(*   csvOk      whether the file argument can be opened                    *)
(*   writeOk    whether the report can be written                          *)
(*   fs         the csvlinter.schema.json beside the CSV file: "none",     *)
(*              "ok" or "bad"                                              *)
(* The flags precede the argument.  Validate runs with the buffer-backed   *)
(* parser on the reader the command hands it.                              *)
(***************************************************************************)
MaxCliLen == 3
MaxLimit == 2

\* Value: 10 * 1024 * 1024, // 10MB default
DefaultMaxSize == 10 * 1024 * 1024

CliToks == {"1", ",", "NL", "Q"}
CliSchemaFlags == {"none", "ok", "bad", "missing"}
CliFormats == {"pretty", "json", "xml"}
CliMaxSizes == (1..MaxLimit) \cup {DefaultMaxSize}
CliBeside == {"none", "ok", "bad"}

\* The CSV file of the runs, and the schema that may lie beside it.
CliDir == <<DirName(1)>>
CliCsv == Path(TRUE, Append(CliDir, <<"data", "csv">>))

\* io.LimitReader(os.Stdin, maxSize): the first n bytes of s.  A two-byte
\* character cut by the limit leaves its first byte, which is not valid
\* UTF-8 on its own.  (The piped inputs hold no "PAD".)
RECURSIVE LimitRead(_, _)
LimitRead(s, n) ==
    IF s = <<>> \/ n <= 0 THEN <<>>
    ELSE IF TokLen(Head(s)) <= n
    THEN <<Head(s)>> \o LimitRead(Tail(s), n - TokLen(Head(s)))
    ELSE <<"BAD">>

\* The reader handed to validator.New.
CliInput(a, src) == IF a.stdin THEN LimitRead(src, a.maxSize) ELSE src

InitCli ==
    /\ EngineIdle
    /\ RowIdle
    /\ JsonIdle
    /\ source \in SeqsUpTo(CliToks, MaxCliLen)
    /\ argv \in [narg : BOOLEAN, stdin : BOOLEAN, schemaFlag : CliSchemaFlags,
                 format : CliFormats, failFast : BOOLEAN, maxSize : CliMaxSizes,
                 filename : BOOLEAN, csvOk : BOOLEAN, writeOk : BOOLEAN,
                 fs : CliBeside]
    \* what the run does not look at is left at one value
    /\ argv.stdin => argv.csvOk
    /\ ~argv.stdin => argv.maxSize = DefaultMaxSize
    /\ (argv.schemaFlag # "none" \/ (argv.stdin /\ ~argv.filename)) => argv.fs = "none"
    /\ files = (IF argv.stdin \/ ~argv.csvOk THEN {} ELSE {CliCsv.comps})
               \cup (IF argv.fs = "none" THEN {} ELSE {Append(CliDir, SchemaFile)})
    /\ dirs = {<<>>, CliDir}
    /\ cwd = <<>>
    /\ csvPath = CliCsv
    /\ rdir = Path(TRUE, <<>>)
    /\ rpc = "idle"
    /\ stopped = ""
    /\ resolved = NotFound
    /\ schemaPath = NoPath
    /\ cliPc = "start"
    /\ exitCode = NoExit
    /\ output = RetNone

\* cli.Exit(message, 1), and an error app.Run returns to main.
CliFail ==
    /\ cliPc' = "exit"
    /\ exitCode' = 1
    /\ output' = output

\* Flag parsing and validateAction up to the schema fallback.
CliBegin ==
    /\ cliPc = "start"
    /\ IF argv.filename \/ ~argv.narg \/ (~argv.stdin /\ ~argv.csvOk)
       THEN CliFail /\ UNCHANGED <<schemaPath, rpc>>
       ELSE IF argv.schemaFlag = "none" /\ ~argv.stdin
       THEN /\ rpc' = "local"
            /\ cliPc' = "resolve"
            /\ UNCHANGED <<schemaPath, exitCode, output>>
       ELSE /\ schemaPath' = IF argv.schemaFlag = "none" THEN NoPath
                             ELSE [set |-> TRUE, kind |-> argv.schemaFlag]
            /\ cliPc' = "schema"
            /\ UNCHANGED <<rpc, exitCode, output>>
    /\ UNCHANGED <<argv, source>>
    /\ UNCHANGED <<files, dirs, cwd, csvPath, rdir, stopped, resolved>>
    /\ UNCHANGED <<engineVars, rowVars, jsonVars>>

\* validateAction from the schema file check to validator.New.
CliPrepare ==
    /\ \/ cliPc = "schema"
       \/ cliPc = "resolve" /\ rpc = "done"
    /\ LET sp == IF cliPc = "schema" THEN schemaPath
                 ELSE IF resolved.found THEN [set |-> TRUE, kind |-> argv.fs]
                 ELSE NoPath
       IN  /\ schemaPath' = sp
           /\ IF \/ sp.set /\ sp.kind \in {"missing", "bad"}
                 \/ argv.format \notin {"pretty", "json"}
              THEN CliFail /\ UNCHANGED engineVars
              ELSE /\ input' = CliInput(argv, source)
                   /\ delimiter' = ","
                   /\ impl' = "buffer"
                   /\ failFast' = argv.failFast
                   /\ schemaV' = IF sp.set THEN SchemaOne ELSE NoSchema
                   /\ openOk' = TRUE
                   /\ pc' = "start"
                   /\ cliPc' = "validate"
                   /\ UNCHANGED <<comma, pos, lineNumber, headers, errors, totalRows,
                                  reads, ret, exitCode, output>>
    /\ UNCHANGED <<argv, source>>
    /\ UNCHANGED <<rowVars, resolveVars, jsonVars>>

\* Faulty variant of ReportExit: results that are not valid exit with 1.
ReportExitOnValid(r, ok) == IF ok /\ r.Valid THEN 0 ELSE 1

\* The exit status after Validate returned Results: Report's error or nil.
ReportExit(r, ok) == IF ok THEN 0 ELSE 1

\* validateAction after Validate returned: the error exit, or the report.
CliReport ==
    /\ cliPc = "validate"
    /\ pc = "done"
    /\ cliPc' = "exit"
    /\ IF ret.kind = "error"
       THEN exitCode' = 1 /\ output' = output
       ELSE /\ exitCode' = ReportExit(ret.res, argv.writeOk)
            /\ output' = IF argv.writeOk THEN RetResults(ret.res) ELSE output
    /\ UNCHANGED <<argv, source, schemaPath>>
    /\ UNCHANGED <<engineVars, rowVars, resolveVars, jsonVars>>

NextCli ==
    \/ CliBegin
    \/ ResolveLocal
    \/ ResolveWalk
    \/ CliPrepare
    \/ NewParser
    \/ ValidateUTF8
    \/ ReadHeaders
    \/ ValidateRowStep
    \/ ReturnResults
    \/ CliReport

SpecCli == InitCli /\ [][NextCli]_vars

(***************************************************************************)
(* Reference notions of the command's properties.                          *)
(***************************************************************************)
CliExited == cliPc = "exit"

\* A command line that names its input, a usable schema (if any) and a
\* supported format, without --filename.
CliWellFormed ==
    /\ argv.narg
    /\ ~argv.filename
    /\ argv.stdin \/ argv.csvOk
    /\ argv.schemaFlag \in {"none", "ok"}
    /\ argv.fs \in {"none", "ok"}
    /\ argv.format \in {"pretty", "json"}

(***************************************************************************)
(* C11: a run that reads STDIN and is piped more bytes than --max-size     *)
(* ends with exit status 1 and reports no Results.                         *)
(***************************************************************************)
C11_OversizeStdinIsRejected ==
    (CliExited /\ CliWellFormed /\ argv.stdin /\ ByteLen(source) > argv.maxSize)
    => /\ exitCode = 1
       /\ output = RetNone

(***************************************************************************)
(* C12: the command exits with 0 exactly when a Results was produced and   *)
(* reported, whatever its Valid, and with 1 on every operational error: a  *)
(* missing argument, an input file that cannot be opened, a schema file    *)
(* that is missing or does not compile, an unsupported format, an error    *)
(* of Validate, a report that cannot be written.                           *)
(***************************************************************************)
CliOperationalError ==
    \/ ~argv.narg
    \/ ~argv.stdin /\ ~argv.csvOk
    \/ argv.schemaFlag \in {"missing", "bad"}
    \/ ~argv.stdin /\ argv.schemaFlag = "none" /\ argv.fs = "bad"
    \/ argv.format \notin {"pretty", "json"}
    \/ ret.kind = "error"
    \/ ~argv.writeOk

C13_StdinResolvesOnlyWithFilename ==
    (/\ CliExited
     /\ argv.narg /\ argv.stdin /\ argv.schemaFlag = "none"
     /\ argv.format \in {"pretty", "json"} /\ argv.writeOk)
    => IF argv.filename
       THEN /\ rpc = "done"
            /\ resolved.found <=> argv.fs # "none"
            /\ argv.fs = "ok" => (schemaV = SchemaOne /\ output.kind = "results"
                                  /\ output.res.SchemaUsed)
       ELSE /\ rpc = "idle"
            /\ schemaV = NoSchema
            /\ output.kind = "results" => ~output.res.SchemaUsed

(***************************************************************************)
(* C14: in a run without fail-fast on an input whose header parses and     *)
(* one of whose data rows cannot be parsed, Validate returns Results that  *)
(* hold an error for that row, not an operational error.                   *)
(***************************************************************************)
C14_UnparsableRowIsAFinding ==
    (/\ Done /\ openOk /\ ~failFast
     /\ Utf8Ok(impl, input)
     /\ Len(ParsedPrefix(input, 1, comma)) >= 1
     /\ ~ParsesFully(input, 1, comma))
    => /\ ret.kind = "results"
       /\ ~ret.res.Valid
       /\ Len(ret.res.Errors) >= 1

(***************************************************************************)
(* C15: every Results that Validate returns has Valid = TRUE exactly when  *)
(* its Errors list is empty.                                               *)
(***************************************************************************)
C15_ValidIffNoErrors ==
    ret.kind = "results" => (ret.res.Valid <=> Len(ret.res.Errors) = 0)

C15_Witness ==
    /\ Done
    /\ failFast
    /\ ret.kind = "results"
    /\ Len(ret.res.Errors) = 1
    /\ ret.res.Errors[1].Type = "structure"
    /\ ~ret.res.Valid
    /\ ret.res.TotalRows < Len(ParsedPrefix(input, 1, comma)) - 1

(***************************************************************************)
(* C16: in every Results that Validate returns, SchemaUsed is TRUE exactly *)
(* when a compiled schema was supplied to the engine.                      *)
(***************************************************************************)
C16_SchemaUsedIffSupplied ==
    ret.kind = "results" => (ret.res.SchemaUsed <=> schemaV # NoSchema)

(***************************************************************************)
(* C17: once ValidateUTF8 has passed, the record reader splits on the      *)
(* delimiter the parser was constructed with: the headers are the fields   *)
(* of the first record as that delimiter separates them.                   *)
(***************************************************************************)
C17_DelimiterSurvivesEncodingCheck ==
    /\ (pc \in {"headers", "rows", "finish"} => comma = delimiter)
    /\ (pc \in {"rows", "finish"} => headers = ReadRecord(input, 1, delimiter).fields)

(***************************************************************************)
(* reporter.formatJSON and the decoding of its output.  A Go string is a   *)
(* sequence of characters: "a" (ASCII), "<" (ASCII that encoding/json      *)
(* escapes), "E2" (a two-byte character), "BAD" (a byte that is not valid  *)
(* UTF-8) and "FFFD" (the replacement character U+FFFD).  A slice is       *)
(* [nil, items]; a nil slice has no items.  A JSON value is a record       *)
(* [t, s, n, b, items]; an object is a function from the keys it holds.    *)
(***************************************************************************)
MaxErrs == 1

JsonStrings == {<<>>, <<"a">>, <<"<">>, <<"E2", "a">>, <<"BAD">>}
GoSlice(isNil, items) == [nil |-> isNil, items |-> items]

JString(s) == [t |-> "string", s |-> s, n |-> 0, b |-> FALSE, items |-> <<>>]
JNumber(n) == [t |-> "number", s |-> <<>>, n |-> n, b |-> FALSE, items |-> <<>>]
JBool(b) == [t |-> "bool", s |-> <<>>, n |-> 0, b |-> b, items |-> <<>>]
JNull == [t |-> "null", s |-> <<>>, n |-> 0, b |-> FALSE, items |-> <<>>]
JArray(items) == [t |-> "array", s |-> <<>>, n |-> 0, b |-> FALSE, items |-> items]

\* encoding/json writes "<" as the escape u003c and every byte that is
\* not valid UTF-8 as the escape ufffd (the replacement character).
EscapeChar(c) == IF c = "<" THEN "u003c" ELSE IF c = "BAD" THEN "ufffd" ELSE c
UnescapeChar(c) == IF c = "u003c" THEN "<" ELSE IF c = "ufffd" THEN "FFFD" ELSE c

MarshalString(str) == JString([i \in 1..Len(str) |-> EscapeChar(str[i])])
UnmarshalString(j) == [i \in 1..Len(j.s) |-> UnescapeChar(j.s[i])]

\* The keys of an Error or Warning: "field" and "value" carry omitempty.
ErrorKeys(e) ==
    {"line_number", "message", "type"}
    \cup (IF e.Field = <<>> THEN {} ELSE {"field"})
    \cup (IF e.Value = <<>> THEN {} ELSE {"value"})

MarshalError(e) ==
    [k \in ErrorKeys(e) |->
        CASE k = "line_number" -> JNumber(e.LineNumber)
          [] k = "field" -> MarshalString(e.Field)
          [] k = "message" -> MarshalString(e.Message)
          [] k = "value" -> MarshalString(e.Value)
          [] k = "type" -> MarshalString(e.Type)]

\* Faulty variant of MarshalSlice: a nil slice is written as an empty array.
MarshalSliceNoNull(sl) == JArray([i \in 1..Len(sl.items) |-> MarshalError(sl.items[i])])

\* A nil slice is written as null, any other as an array.
MarshalSlice(sl) ==
    IF sl.nil THEN JNull
    ELSE JArray([i \in 1..Len(sl.items) |-> MarshalError(sl.items[i])])

\* json.MarshalIndent(results, "", "  ")
MarshalResults(r) ==
    [k \in {"file", "total_rows", "errors", "warnings", "duration", "valid",
            "schema_used"} |->
        CASE k = "file" -> MarshalString(r.File)
          [] k = "total_rows" -> JNumber(r.TotalRows)
          [] k = "errors" -> MarshalSlice(r.Errors)
          [] k = "warnings" -> MarshalSlice(r.Warnings)
          [] k = "duration" -> MarshalString(r.Duration)
          [] k = "valid" -> JBool(r.Valid)
          [] k = "schema_used" -> JBool(r.SchemaUsed)]

\* The string of key k of an object, "" when the object does not hold k.
StringAt(obj, k) == IF k \in DOMAIN obj THEN UnmarshalString(obj[k]) ELSE <<>>

UnmarshalError(obj) ==
    [LineNumber |-> obj["line_number"].n,
     Field |-> StringAt(obj, "field"),
     Message |-> StringAt(obj, "message"),
     Value |-> StringAt(obj, "value"),
     Type |-> StringAt(obj, "type")]

\* null leaves the slice nil, an array makes a slice that is not nil.
UnmarshalSlice(j) ==
    IF j.t = "null" THEN GoSlice(TRUE, <<>>)
    ELSE GoSlice(FALSE, [i \in 1..Len(j.items) |-> UnmarshalError(j.items[i])])

\* json.Unmarshal(output, &decoded)
UnmarshalResults(doc) ==
    [File |-> StringAt(doc, "file"),
     TotalRows |-> doc["total_rows"].n,
     Errors |-> UnmarshalSlice(doc["errors"]),
     Warnings |-> UnmarshalSlice(doc["warnings"]),
     Duration |-> StringAt(doc, "duration"),
     Valid |-> doc["valid"].b,
     SchemaUsed |-> doc["schema_used"].b]

\* The Error and Warning records of the reports.
JsonErrors ==
    [LineNumber : {0, 2}, Field : JsonStrings, Message : {<<"a">>},
     Value : JsonStrings, Type : {<<"schema">>}]
JsonWarnings ==
    [LineNumber : {2}, Field : {<<>>, <<"a">>}, Message : {<<"a">>},
     Value : {<<>>}, Type : {<<"schema">>}]

Slices(S) == {GoSlice(TRUE, <<>>)} \cup {GoSlice(FALSE, q) : q \in SeqsUpTo(S, MaxErrs)}

InitJson ==
    /\ EngineIdle
    /\ RowIdle
    /\ ResolveIdle
    /\ CliIdle
    /\ jrIn \in [File : JsonStrings, TotalRows : {0, 2}, Errors : Slices(JsonErrors),
                 Warnings : Slices(JsonWarnings), Duration : {<<"a">>},
                 Valid : BOOLEAN, SchemaUsed : BOOLEAN]
    /\ jrDoc = <<>>
    /\ jrOut = <<>>
    /\ jrPc = "encode"

\* Reporter.formatJSON
FormatJSON ==
    /\ jrPc = "encode"
    /\ jrDoc' = MarshalResults(jrIn)
    /\ jrPc' = "decode"
    /\ UNCHANGED <<jrIn, jrOut>>
    /\ UNCHANGED <<engineVars, rowVars, resolveVars, cliVars>>

\* json.Unmarshal of the report into a Results
DecodeJSON ==
    /\ jrPc = "decode"
    /\ jrOut' = UnmarshalResults(jrDoc)
    /\ jrPc' = "done"
    /\ UNCHANGED <<jrIn, jrDoc>>
    /\ UNCHANGED <<engineVars, rowVars, resolveVars, cliVars>>

NextJson ==
    \/ FormatJSON
    \/ DecodeJSON

SpecJson == InitJson /\ [][NextJson]_vars

\* The fields the round trip is about.
Reported(r) ==
    [File |-> r.File, TotalRows |-> r.TotalRows, Errors |-> r.Errors,
     Warnings |-> r.Warnings, Valid |-> r.Valid, SchemaUsed |-> r.SchemaUsed]

\* Whether every string of r is valid UTF-8.
ValidString(str) == \A i \in 1..Len(str) : str[i] # "BAD"
ValidStrings(r) ==
    /\ ValidString(r.File)
    /\ \A sl \in {r.Errors, r.Warnings} : \A i \in 1..Len(sl.items) :
          /\ ValidString(sl.items[i].Field)
          /\ ValidString(sl.items[i].Message)
          /\ ValidString(sl.items[i].Value)

(***************************************************************************)
(* C18 (as stated): for every Results, decoding the JSON report gives back *)
(* the same File, TotalRows, Errors, Warnings, Valid and SchemaUsed.       *)
(***************************************************************************)
C18_RoundTripAnyResults ==
    jrPc = "done" => Reported(jrOut) = Reported(jrIn)

(***************************************************************************)
(* C18 (amended): for every Results whose strings are valid UTF-8,         *)
(* decoding the JSON report gives back the same File, TotalRows, Errors,   *)
(* Warnings, Valid and SchemaUsed; nil and empty slices and empty Field    *)
(* and Value strings are kept as they are.                                 *)
(***************************************************************************)
C18_RoundTripValidStrings ==
    (jrPc = "done" /\ ValidStrings(jrIn)) => Reported(jrOut) = Reported(jrIn)

C18_Witness ==
    /\ jrPc = "done"
    /\ jrIn.Warnings.nil
    /\ ~jrIn.Errors.nil
    /\ Len(jrIn.Errors.items) = 1
    /\ jrIn.Errors.items[1].Field = <<>>
    /\ jrIn.Errors.items[1].Value = <<"<">>
    /\ jrIn.File = <<"E2", "a">>
    /\ "field" \notin DOMAIN jrDoc["errors"].items[1]
    /\ jrDoc["warnings"].t = "null"
    /\ Reported(jrOut) = Reported(jrIn)

(***************************************************************************)
(* C19: with fail-fast, once an error has been appended no step calls      *)
(* ReadRow again, and the run then ends with Results, never with an        *)
(* operational error, whatever the rows that were not read hold.           *)
(***************************************************************************)
C19_NoReadAfterFailFast ==
    /\ [][(failFast /\ Len(errors) > 0) => reads' = reads]_vars
    /\ []((Done /\ failFast /\ Len(errors) > 0)
            => (ret.kind = "results" /\ ret.res.Errors = errors /\ reads = totalRows))

C19_Witness ==
    /\ Done
    /\ failFast
    /\ Len(errors) > 0
    /\ ret.kind = "results"
    /\ reads = 1
    /\ ReadRecord(input, pos, comma).kind = "err"

(***************************************************************************)
(* C20: whenever the coerced mapping of a row (with as many fields as      *)
(* headers) fails the compiled schema, ValidateRow returns at least one    *)
(* issue.                                                                  *)
(***************************************************************************)
C20_FailingRowHasIssues ==
    (/\ rvPc = "done"
     /\ Len(rvHeaders) = Len(rvData)
     /\ SchemaFails(rvSchema, BuildRowData(rvSchema, rvHeaders, rvData)))
    => rvIssues # <<>>

(***************************************************************************)
(* One call of Validator.convertValidationErrors on an arbitrary error     *)
(* tree: up to MaxCauses causes under the top node, each with up to        *)
(* MaxSubCauses causes of its own, every node at the document root or at   *)
(* property a or b (the innermost ones at a property).  The data is the rowData ValidateRow builds for a row  *)
(* of one column.                                                          *)
(***************************************************************************)
MaxCauses == 2
MaxSubCauses == MaxCauses - 1

ConvertLocs == {<<>>, <<"/", "a">>, <<"/", "b">>}

ConvertLeaves == {Node(l, Msg("type", 0, 0, {}), <<>>) : l \in ConvertLocs \ {<<>>}}

ConvertInner ==
    {Node(l, Msg("", 0, 0, {}), cs) :
        l \in ConvertLocs, cs \in SeqsUpTo(ConvertLeaves, MaxSubCauses)}

ConvertTrees ==
    {Node(l, Msg("doesn't validate", 0, 0, {}), cs) :
        l \in ConvertLocs, cs \in SeqsUpTo(ConvertInner, MaxCauses)}

ConvertFields == {<<"a">>, <<"0", "1">>, <<"1", ".", "0">>}

InitConvert ==
    /\ EngineIdle
    /\ ResolveIdle
    /\ CliIdle
    /\ JsonIdle
    /\ rvSchema = SchemaBothTypes
    /\ rvHeaders \in {<<h>> : h \in RowNames}
    /\ rvData \in {<<f>> : f \in ConvertFields}
    /\ rvRowData = BuildRowData(rvSchema, rvHeaders, rvData)
    /\ rvTree \in ConvertTrees
    /\ rvIssues = <<>>
    /\ rvEmpty = FALSE
    /\ rvPc = "convert"

CallConvert ==
    /\ rvPc = "convert"
    /\ rvIssues' = convertValidationErrors(rvTree, rvRowData)
    /\ rvPc' = "done"
    /\ UNCHANGED <<rvSchema, rvHeaders, rvData, rvRowData, rvTree, rvEmpty>>
    /\ UNCHANGED <<engineVars, resolveVars, cliVars, jsonVars>>

NextConvert == CallConvert

SpecConvert == InitConvert /\ [][NextConvert]_vars

(***************************************************************************)
(* C23: flattening a validation-error tree yields the issues in            *)
(* depth-first pre-order: a node contributes one issue if and only if its  *)
(* instance location is not the document root, the node's own issue        *)
(* precedes the issues of all its sub-causes, sub-causes are flattened in  *)
(* their given order, and the number of issues equals the number of nodes  *)
(* of the tree whose location is not the root.  A node is named by its     *)
(* path, the indexes of the causes that lead to it from the top.           *)
(***************************************************************************)
RECURSIVE NodeAt(_, _)
NodeAt(t, path) ==
    IF path = <<>> THEN t ELSE NodeAt(t.causes[Head(path)], Tail(path))

RECURSIVE TreePaths(_)
TreePaths(t) ==
    {<<>>} \cup UNION {{<<i>> \o q : q \in TreePaths(t.causes[i])} : i \in 1..Len(t.causes)}

\* p comes before q in pre-order: p is a proper ancestor of q, or p branches
\* off to an earlier cause where the two paths part.
PathBefore(p, q) ==
    \/ Len(p) < Len(q) /\ SubSeq(q, 1, Len(p)) = p
    \/ \E k \in 1..Min(Len(p), Len(q)) :
          /\ SubSeq(p, 1, k - 1) = SubSeq(q, 1, k - 1)
          /\ p[k] < q[k]

Contributing(t) == {p \in TreePaths(t) : NodeAt(t, p).loc # <<>>}

PreOrderRank(t, p) == Cardinality({q \in Contributing(t) : PathBefore(q, p)}) + 1

C23_FlattenIsPreOrder ==
    (rvPc = "done" /\ rvTree # NoTree)
    => /\ Len(rvIssues) = Cardinality(Contributing(rvTree))
       /\ \A p \in Contributing(rvTree) :
             /\ rvIssues[PreOrderRank(rvTree, p)].Field = TrimSlash(NodeAt(rvTree, p).loc)
             /\ rvIssues[PreOrderRank(rvTree, p)].Message = NodeAt(rvTree, p).msg

\* A tree whose top node contributes, whose first cause sits at the root
\* (and is skipped) over a contributing cause, and whose second cause
\* contributes over a contributing cause at another property.
C23_Witness ==
    /\ rvPc = "done"
    /\ rvTree # NoTree
    /\ rvTree.loc = <<"/", "a">>
    /\ Len(rvTree.causes) = 2
    /\ rvTree.causes[1].loc = <<>>
    /\ Len(rvTree.causes[1].causes) = 1
    /\ rvTree.causes[1].causes[1].loc = <<"/", "b">>
    /\ rvTree.causes[2].loc = <<"/", "b">>
    /\ Len(rvTree.causes[2].causes) = 1
    /\ rvTree.causes[2].causes[1].loc = <<"/", "a">>
    /\ Len(rvIssues) = 4

(***************************************************************************)
(* C24: the Value of each schema issue is the string form of the coerced   *)
(* mapping entry for the issue's Field, so a coerced numeric field echoes  *)
(* its canonical numeric form and not the original literal, and it is the  *)
(* empty string when the Field does not name a key of the mapping.  The    *)
(* canonical form of a number spells the same number with no leading zero  *)
(* and no fraction that ends in zero.                                      *)
(***************************************************************************)
RawOf(h) == rvData[LastIndexOf(rvHeaders, h)]

Canonical(txt) ==
    /\ txt # <<>>
    /\ (Len(txt) > 1 /\ txt[1] = "0") => txt[2] = "."
    /\ (\E i \in 1..Len(txt) : txt[i] = ".") => txt[Len(txt)] \notin {"0", "."}

EchoesCoerced(h, val) ==
    IF rvRowData[h].t = "string" THEN val = RawOf(h)
    ELSE /\ ParseFloatOk(val)
         /\ Canonical(val)
         /\ FloatValue(val).n = FloatValue(RawOf(h)).n
         /\ FloatValue(val).sc = FloatValue(RawOf(h)).sc

ErrorsAt(errs, ln) == SelectSeq(errs, LAMBDA e : e.LineNumber = ln)

StructureThenSchema(es, nh, nf) ==
    /\ Len(es) = 2
    /\ es[1].Type = "structure"
    /\ es[1].Field = Str_row
    /\ es[1].Message = Msg("column count mismatch", nh, nf, {})
    /\ es[2].Type = "schema"
    /\ es[2].Field = Str_row
    /\ es[2].Message = Msg("mismatched columns", nh, nf, {})
    /\ es[2].Value = Str_empty

C25_RaggedRowWithSchemaGivesTwoErrors ==
    LET recs == ParsedPrefix(input, 1, comma)
    IN  (pc \in {"rows", "finish", "done"} /\ lineNumber >= 1 /\ schemaV # NoSchema)
        => /\ \A k \in 1..totalRows :
                 Len(recs[k + 1]) # Len(recs[1])
                 => StructureThenSchema(ErrorsAt(errors, k + 1), Len(recs[1]), Len(recs[k + 1]))
           /\ (ret.kind = "results" => ret.res.Errors = errors)

\* A run with a schema that returned Results after a row of the header's
\* length and a longer one.
C25_Witness ==
    /\ Done
    /\ ret.kind = "results"
    /\ schemaV # NoSchema
    /\ totalRows = 2
    /\ Len(headers) = 1
    /\ Len(ret.res.Errors) >= 2
    /\ LET n == Len(ret.res.Errors)
       IN  /\ ret.res.Errors[n - 1].Type = "structure"
           /\ ret.res.Errors[n - 1].LineNumber = 3
           /\ ret.res.Errors[n].Type = "schema"
           /\ ret.res.Errors[n].LineNumber = 3
           /\ ret.res.Errors[n].Field = Str_row

NonDecreasing(errs) ==
    \A i \in 1..Len(errs) : \A j \in i..Len(errs) :
        errs[i].LineNumber <= errs[j].LineNumber

C27_ErrorsInDocumentOrder ==
    /\ NonDecreasing(errors)
    /\ ret.kind = "results"
       => /\ NonDecreasing(ret.res.Errors)
          /\ (~failFast /\ lineNumber >= 1)
             => /\ ParsesFully(input, 1, comma)
                /\ ret.res.TotalRows = Len(ParsedPrefix(input, 1, comma)) - 1

\* A run without fail-fast over three data rows, the first and the last
\* with errors.
C27_Witness ==
    /\ Done
    /\ ~failFast
    /\ ret.kind = "results"
    /\ ret.res.TotalRows = 3
    /\ Len(ret.res.Errors) >= 2
    /\ ret.res.Errors[1].LineNumber = 2
    /\ ret.res.Errors[Len(ret.res.Errors)].LineNumber = 4

(***************************************************************************)
(* C28: for one reader on which ReadHeaders succeeded first, the k-th row  *)
(* returned by ReadRow (k >= 1) has LineNumber k + 1, so line numbers are  *)
(* strictly increasing by one per returned row; a ReadRow call that        *)
(* returns end-of-input or an error leaves the line counter unchanged.     *)
(* totalRows counts the rows returned, and the row just returned carries   *)
(* the new value of the counter.                                           *)
(***************************************************************************)
C28_LineNumbersCountRows ==
    /\ [][(reads' = reads + 1)
            => IF ReadRecord(input, pos, comma).kind = "rec"
               THEN /\ totalRows' = totalRows + 1
                    /\ lineNumber' = lineNumber + 1
                    /\ lineNumber' = totalRows' + 1
               ELSE /\ lineNumber' = lineNumber
                    /\ totalRows' = totalRows]_vars
    /\ []((pc \in {"rows", "finish"}) => lineNumber = totalRows + 1)

\* A row was returned with LineNumber 2, then a ReadRow call failed.
C28_Witness ==
    /\ Done
    /\ ret.kind = "error"
    /\ ret.err[1] = "failed to read row"
    /\ reads = 2
    /\ totalRows = 1
    /\ lineNumber = 2

(***************************************************************************)
(* One call of parser.Row.IsEmpty on a row of up to MaxRowLen fields.      *)
(***************************************************************************)
MaxRowLen == 3

\* Faulty variant of IsEmpty: only the first field is looked at.
IsEmptyFirstFieldOnly(data) == Len(data) = 0 \/ data[1] = Str_empty

\* Row.IsEmpty: no fields, a single empty field, or no field in the loop
\* over r.Data that is not empty.
IsEmpty(data) ==
    IF Len(data) = 0 THEN TRUE
    ELSE IF Len(data) = 1 /\ data[1] = Str_empty THEN TRUE
    ELSE ~\E i \in 1..Len(data) : data[i] # Str_empty

InitIsEmpty ==
    /\ EngineIdle
    /\ ResolveIdle
    /\ CliIdle
    /\ JsonIdle
    /\ rvSchema = NoSchema
    /\ rvHeaders = <<>>
    /\ rvData \in SeqsUpTo(RowFields, MaxRowLen)
    /\ rvIssues = <<>>
    /\ rvRowData = NoRowData
    /\ rvTree = NoTree
    /\ rvEmpty = FALSE
    /\ rvPc = "isempty"

CallIsEmpty ==
    /\ rvPc = "isempty"
    /\ rvEmpty' = IsEmpty(rvData)
    /\ rvPc' = "done"
    /\ UNCHANGED <<rvSchema, rvHeaders, rvData, rvIssues, rvRowData, rvTree>>
    /\ UNCHANGED <<engineVars, resolveVars, cliVars, jsonVars>>

NextIsEmpty == CallIsEmpty

SpecIsEmpty == InitIsEmpty /\ [][NextIsEmpty]_vars

(***************************************************************************)
(* C29 as stated: Row.IsEmpty returns true if and only if the row has zero *)
(* fields or exactly one field that is the empty string; in particular a   *)
(* row with two or more fields is never classified as structurally empty.  *)
(***************************************************************************)
C29_EmptyIffAtMostOneEmptyField ==
    rvPc = "done"
    => (rvEmpty <=> (Len(rvData) = 0 \/ (Len(rvData) = 1 /\ rvData[1] = Str_empty)))

(***************************************************************************)
(* C29 amended: Row.IsEmpty returns true if and only if every field of the *)
(* row is the empty string (a row without fields included), whatever the   *)
(* number of fields; a row with a field that is not empty is never         *)
(* classified as empty.                                                    *)
(***************************************************************************)
C29_EmptyIffAllFieldsEmpty ==
    rvPc = "done"
    => (rvEmpty <=> {i \in 1..Len(rvData) : Len(rvData[i]) > 0} = {})

\* The row of the line ",": two fields, both empty, classified as empty.
C29_Witness ==
    /\ rvPc = "done"
    /\ rvData = <<Str_empty, Str_empty>>
    /\ rvEmpty

(***************************************************************************)
(* ResolveSchema as a running call: it is a sequential function without    *)
(* blocking operations, so a step that can be taken is eventually taken.   *)
(***************************************************************************)
SpecResolveFair == InitResolve /\ [][NextResolve]_vars /\ WF_vars(NextResolve)

(***************************************************************************)
(* C30: ResolveSchema terminates for every target path (absolute,          *)
(* relative, or with no directory component) on any finite directory tree: *)
(* every call eventually returns, each move of the upward walk goes to a   *)
(* strictly shorter directory (so no ancestor is visited twice), and the   *)
(* walk stops at the latest at a directory that equals its own parent.     *)
(***************************************************************************)
C30_ResolveSchemaTerminates ==
    /\ <>(rpc = "done")
    /\ [][(rpc = "walk" /\ rpc' = "walk")
            => /\ Len(rdir'.comps) < Len(rdir.comps)
               /\ rdir' = PathDir(rdir)]_vars
    /\ [][(rpc = "walk" /\ PathDir(rdir) = rdir) => rpc' = "done"]_vars

\* The walk from a directory two levels down went through every ancestor
\* and stopped at the system root without a schema.
C30_Witness ==
    /\ rpc = "done"
    /\ csvPath.abs
    /\ Len(csvPath.comps) = 3
    /\ rdir = Path(TRUE, <<>>)
    /\ stopped = "root"
    /\ resolved = NotFound

====
